---- MODULE Spec2Model ----
(***************************************************************************)
(* The batched ingestion pipeline of the arXiv/Elasticsearch project:       *)
(* scripts/download_dataset.py, scripts/generate_embeddings.py,            *)
(* scripts/ingest_data.py and scripts/setup_snapshots.py.                  *)
(* One behaviour is one run of one script's main().  The Kaggle download,  *)
(* the embedding model (SentenceTransformer) and the Elasticsearch cluster *)
(* are external: their answers are nondeterministic inputs of the actions  *)
(* that call them.                                                         *)
(***************************************************************************)
EXTENDS Integers, Sequences, FiniteSets, TLC

VARIABLES
    script,          \* which main() this behaviour runs
    pc,              \* position in that main()
    papers,          \* the list `papers` (mutated in place by generate_embeddings)
    batch_size,      \* BATCH_SIZE
    i,               \* loop variable of range(0, len(...), batch_size)
    log,             \* history: the external calls made so far, in order
    embedding_dim,   \* generate_embeddings: embedding_dim
    all_embeddings,  \* generate_embeddings: all_embeddings
    index_exists,    \* backend: the index exists
    index,           \* backend: the documents of the index, one per _id
    visible,         \* backend: the documents visible to stats/search (as of last refresh)
    total_indexed,   \* bulk_index_papers: total_indexed
    total_errors,    \* bulk_index_papers: total_errors
    doc_count,       \* verify_index: doc_count
    written,         \* history: papers whose write the backend applied, in order
    input_exists,    \* the file the script reads exists (os.path.exists(input_file))
    output_file,     \* the file the script writes
    exit_status,     \* -1 while main() runs, then the status the process ends with
    source,          \* download_dataset: the lines of arxiv-metadata-oai-snapshot.json
    max_papers,      \* filter_cs_papers: max_papers (MAX_DOCUMENTS)
    pos,             \* filter_cs_papers: the number of lines read from the source
    cs_papers,       \* filter_cs_papers: cs_papers
    total_processed, \* filter_cs_papers: total_processed
    failure,         \* download_dataset.main: the exception caught, "none" if none
    cluster,         \* backend: per index name, whether it exists, is open, and its documents
    snapshot,        \* backend: the documents the snapshot holds for the index
    restore_args,    \* restore_snapshot: rename_pattern and rename_replacement as called
    restore_body,    \* restore_snapshot: the body of the restore request sent
    repository,      \* backend: the settings the snapshot repository is registered with
    call,            \* the last snapshot operation that ended: how it ended, what it returned
    ops              \* the number of snapshot operations made from the menu

vars == <<script, pc, papers, batch_size, i, log, embedding_dim, all_embeddings,
          index_exists, index, visible, total_indexed, total_errors, doc_count, written,
          input_exists, output_file, exit_status,
          source, max_papers, pos, cs_papers, total_processed, failure,
          cluster, snapshot, restore_args, restore_body, repository, call, ops>>

embedVars == <<embedding_dim, all_embeddings>>
loadVars == <<index_exists, index, visible, total_indexed, total_errors, doc_count, written>>
procVars == <<input_exists, output_file, exit_status>>
filterVars == <<source, max_papers, pos, cs_papers, total_processed, failure>>
snapVars == <<cluster, snapshot, restore_args, restore_body, repository, call, ops>>

(***************************************************************************)
(* Bounds of the model.                                                    *)
(***************************************************************************)
MaxPapers == 3
MaxBatch == 2
ModelDim == 2
MaxLines == 3
MaxCap == 2
MaxOps == 2

Min(a, b) == IF a < b THEN a ELSE b

(***************************************************************************)
(* Python helpers.                                                         *)
(***************************************************************************)
\* dict.get(key, default)
Get(d, key, default) == IF key \in DOMAIN d THEN d[key] ELSE default

\* Slice with the upper end one short: seq[i:i + n - 1]
SliceShort(seq, start, n) == SubSeq(seq, start + 1, Min(start + n - 1, Len(seq)))

\* seq[i:i + n] for 0 <= i, 1 <= n
Slice(seq, start, n) == SubSeq(seq, start + 1, Min(start + n, Len(seq)))

\* the records cs_papers.json holds: the six fields download_dataset.py writes
Paper(id, abstract) ==
    [id |-> id, title |-> "t", abstract |-> abstract, categories |-> <<"cs.AI">>,
     authors |-> "a", update_date |-> "2020-01-01"]

PaperPool == {Paper("p1", "x"), Paper("p1", "y"), Paper("p2", "x")}

SeqsUpTo(S, n) == UNION {[1..k -> S] : k \in 0..n}

(***************************************************************************)
(* The embedding service: model.encode(batch) returns a 2-d array, one row *)
(* per text.  A row is determined by its text and the dimension.           *)
(***************************************************************************)
NdArray(text, dim) == [kind |-> "ndarray", data |-> [k \in 1..dim |-> text]]

tolist(row) == row.data

EncodeOutcomes == {"ok", "short", "extra", "dim"}

\* what the service answers for `batch`: one row per text of dimension ModelDim
\* ("ok"), a row too few ("short"), a row too many ("extra"), or rows of another
\* dimension ("dim")
Encode(batch, outcome) ==
    LET rows(d) == [k \in 1..Len(batch) |-> NdArray(batch[k], d)]
    IN  CASE outcome = "ok"    -> rows(ModelDim)
          [] outcome = "short" -> SubSeq(rows(ModelDim), 1, Len(batch) - 1)
          [] outcome = "extra" -> Append(rows(ModelDim), NdArray("", ModelDim))
          [] outcome = "dim"   -> rows(ModelDim + 1)

\* abstracts = [paper.get('abstract', '') for paper in papers]
Abstracts(ps) == [k \in 1..Len(ps) |-> Get(ps[k], "abstract", "")]

\* for paper, embedding in zip(papers, all_embeddings):
\*     paper['abstract_vector'] = embedding.tolist()
AttachVectors(ps, embs) ==
    [k \in 1..Len(ps) |->
        IF k <= Len(embs)
        THEN ("abstract_vector" :> tolist(embs[k])) @@ ps[k]
        ELSE ps[k]]

\* a record of cs_papers_with_embeddings.json written by a run whose service
\* answered as documented
Embedded(p) == AttachVectors(<<p>>, Encode(<<p.abstract>>, "ok"))[1]

(***************************************************************************)
(* generate_actions                                                        *)
(***************************************************************************)
IndexName == "arxiv-papers"

\* Action keyed by the abstract instead of the identifier
ActionKeyedByAbstract(paper, index_name) ==
    [_index |-> index_name,
     _id |-> Get(paper, "abstract", ""),
     _source |-> [paper_id |-> Get(paper, "id", ""),
                  title |-> Get(paper, "title", ""),
                  abstract |-> Get(paper, "abstract", ""),
                  categories |-> Get(paper, "categories", <<>>),
                  authors |-> Get(paper, "authors", ""),
                  update_date |-> Get(paper, "update_date", ""),
                  abstract_vector |-> Get(paper, "abstract_vector", <<>>)]]

\* one write action of generate_actions
Action(paper, index_name) ==
    [_index |-> index_name,
     _id |-> Get(paper, "id", ""),
     _source |-> [paper_id |-> Get(paper, "id", ""),
                  title |-> Get(paper, "title", ""),
                  abstract |-> Get(paper, "abstract", ""),
                  categories |-> Get(paper, "categories", <<>>),
                  authors |-> Get(paper, "authors", ""),
                  update_date |-> Get(paper, "update_date", ""),
                  abstract_vector |-> Get(paper, "abstract_vector", <<>>)]]

generate_actions(ps, index_name) == [k \in 1..Len(ps) |-> Action(ps[k], index_name)]

(***************************************************************************)
(* The backend index: an "index" action with an _id replaces the document  *)
(* of that _id, or adds it.                                                *)
(***************************************************************************)
Doc(action) == [_id |-> action._id, _source |-> action._source]

Upsert(idx, action) == {d \in idx : d._id # action._id} \cup {Doc(action)}

RECURSIVE ApplyActions(_, _)
ApplyActions(idx, actions) ==
    IF actions = <<>> THEN idx
    ELSE ApplyActions(Upsert(idx, Head(actions)), Tail(actions))

\* the elements of seq at the positions not in F, in order
RECURSIVE Except(_, _, _)
Except(seq, F, k) ==
    IF k > Len(seq) THEN <<>>
    ELSE (IF k \in F THEN <<>> ELSE <<seq[k]>>) \o Except(seq, F, k + 1)

\* an index left by an earlier load of `ps`
LoadedIndex(ps) == ApplyActions({}, generate_actions(ps, IndexName))

\* the earlier loads an existing index may come from
PriorLoads == {<<>>, <<Embedded(Paper("p2", "x"))>>}

\* the records cs_papers_with_embeddings.json is drawn from: one identifier
\* with two contents
LoadPool == {Embedded(Paper("p1", "x")), Embedded(Paper("p1", "y"))}

(***************************************************************************)
(* JSON values and Python strings.  A string is the sequence of its        *)
(* characters; a JSON value carries its type.                              *)
(***************************************************************************)
Str(chars) == [t |-> "str", v |-> chars]
Null == [t |-> "null", v |-> <<>>]
List(items) == [t |-> "list", v |-> items]
Obj(dict) == [t |-> "object", v |-> dict]

Whitespace == {" ", "\n", "\t"}

\* str.replace(old, new) for single characters
Replace(chars, old, new) ==
    [k \in 1..Len(chars) |-> IF chars[k] = old THEN new ELSE chars[k]]

\* str.strip()
RECURSIVE LStrip(_)
LStrip(chars) ==
    IF chars # <<>> /\ Head(chars) \in Whitespace THEN LStrip(Tail(chars)) ELSE chars

RECURSIVE RStrip(_)
RStrip(chars) ==
    IF chars # <<>> /\ chars[Len(chars)] \in Whitespace
    THEN RStrip(SubSeq(chars, 1, Len(chars) - 1))
    ELSE chars

Strip(chars) == RStrip(LStrip(chars))

\* str.split(): the maximal runs of non-whitespace characters from position k
\* on, cur being the run read so far
RECURSIVE SplitFrom(_, _, _)
SplitFrom(chars, cur, k) ==
    LET done == IF cur = <<>> THEN <<>> ELSE <<Str(cur)>>
    IN  IF k > Len(chars) THEN done
        ELSE IF chars[k] \in Whitespace THEN done \o SplitFrom(chars, <<>>, k + 1)
        ELSE SplitFrom(chars, Append(cur, chars[k]), k + 1)

Split(chars) == SplitFrom(chars, <<>>, 1)

\* str.startswith(prefix)
StartsWith(chars, prefix) ==
    Len(chars) >= Len(prefix) /\ SubSeq(chars, 1, Len(prefix)) = prefix

(***************************************************************************)
(* filter_cs_papers                                                        *)
(***************************************************************************)
CsPrefix == <<"c", "s", ".">>

\* cat.startswith('cs.')
IsCs(cat) == StartsWith(cat.v, CsPrefix)

\* categories = paper.get('categories', ''); split if it is a str
Categories(paper) ==
    LET c == Get(paper, "categories", Str(<<>>))
    IN  IF c.t = "str" THEN Split(c.v) ELSE c.v

\* AnyCs keeping a record only when all its tags match
AllCs(cats) == \A k \in 1..Len(cats) : IsCs(cats[k])

\* any(cat.startswith('cs.') for cat in categories)
AnyCs(cats) == \E k \in 1..Len(cats) : IsCs(cats[k])

\* paper.get(key, '').replace('\n', ' ').strip()
CleanText(paper, key) == Str(Strip(Replace(Get(paper, key, Str(<<>>)).v, "\n", " ")))

\* cs_paper = {...}
CsPaper(paper) ==
    [id |-> Get(paper, "id", Str(<<>>)),
     title |-> CleanText(paper, "title"),
     abstract |-> CleanText(paper, "abstract"),
     categories |-> List(SelectSeq(Categories(paper), IsCs)),
     authors |-> Get(paper, "authors", Str(<<>>)),
     update_date |-> Get(paper, "update_date", Str(<<>>))]

\* CapReached never breaking out of the loop
CapReachedNever(cap, n) == FALSE

\* if max_papers and len(cs_papers) >= max_papers: break
CapReached(cap, n) == cap # 0 /\ n >= cap

\* a line of the source file: its bytes decode or not, its text is JSON or not
JsonLine(value) == [kind |-> "json", value |-> value]
BadJsonLine == [kind |-> "bad_json", value |-> Null]
BadUtf8Line == [kind |-> "bad_utf8", value |-> Null]

\* the exception the loop iteration for `line` raises out of filter_cs_papers,
\* "none" if it raises none (json.JSONDecodeError is caught inside the loop)
LineRaises(line) ==
    IF line.kind = "bad_utf8" THEN "UnicodeDecodeError"
    ELSE IF line.kind = "bad_json" THEN "none"
    ELSE IF line.value.t # "object" THEN "AttributeError"
    ELSE LET paper == line.value.v
             c == Get(paper, "categories", Str(<<>>))
         IN  IF c.t \notin {"str", "list"} THEN "TypeError"
             ELSE IF /\ AnyCs(Categories(paper))
                     /\ \/ Get(paper, "title", Str(<<>>)).t # "str"
                        \/ Get(paper, "abstract", Str(<<>>)).t # "str"
                  THEN "AttributeError"
                  ELSE "none"

\* the lines the source is drawn from
LineA ==
    JsonLine(Obj([id |-> Str(<<"a">>),
                  title |-> Str(<<"T", "\n", "x", " ">>),
                  categories |-> Str(<<"c", "s", ".", "A", " ", "m", "a", ".", "C">>),
                  authors |-> Str(<<"A", "\n", "B">>)]))
LineB ==
    JsonLine(Obj([id |-> Str(<<"b">>),
                  categories |-> Str(<<"m", "a", ".", "C", " ", "c", "s", "x">>)]))
LineC ==
    JsonLine(Obj([id |-> Null,
                  abstract |-> Str(<<"\n", "U">>),
                  categories |-> List(<<Str(<<"c", "s", ".", "L">>),
                                        Str(<<"c", "s", ".", "A">>)>>),
                  update_date |-> Str(<<"2", "3">>)]))
LineList == JsonLine(List(<<>>))

LinePool == {LineA, LineB, LineC, LineList, BadJsonLine, BadUtf8Line}

\* create_sample_dataset: the i-th generated paper, i from 0
SamplePaper(n) ==
    [id |-> <<2000 + (n \div 100), n % 10000>>,
     topic |-> n % 10,
     categories |-> <<n % 10>>,
     authors |-> <<(n % 5) + 1, ((n + 1) % 5) + 1, ((n + 2) % 5) + 1>>,
     update_date |-> <<2023, (n % 12) + 1, (n % 28) + 1>>]

SampleDataset(num_samples) == [k \in 1..num_samples |-> SamplePaper(k - 1)]

(***************************************************************************)
(* restore_snapshot.  Index names, patterns and replacements are strings,  *)
(* written as the sequence of their parts.                                 *)
(***************************************************************************)
\* index_name = os.getenv('INDEX_NAME', 'arxiv-papers')
SourceIndex == <<"arxiv", "-papers">>

\* f"{index_name}_restored"
RestoredName == SourceIndex \o <<"_restored">>

\* Python truth value of an optional string or list argument
Truthy(arg) == arg.t # "null" /\ arg.v # <<>>

\* ",".join(indices)
RECURSIVE Join(_)
Join(items) ==
    IF items = <<>> THEN <<>>
    ELSE IF Len(items) = 1 THEN Head(items)
    ELSE Head(items) \o <<",">> \o Join(Tail(items))

\* the body restore_snapshot builds from its arguments
RestoreBody(indices, rename_pattern, rename_replacement) ==
    (IF Truthy(rename_pattern) /\ Truthy(rename_replacement)
     THEN [rename_pattern |-> rename_pattern.v, rename_replacement |-> rename_replacement.v]
     ELSE <<>>)
    @@ (IF Truthy(indices) THEN [indices |-> Join(indices.v)] ELSE <<>>)

\* the backend's renaming of a snapshot index: every occurrence of the pattern
\* in the name is replaced
RECURSIVE ReplaceAll(_, _, _)
ReplaceAll(name, pattern, replacement) ==
    IF name = <<>> THEN <<>>
    ELSE IF StartsWith(name, pattern)
         THEN replacement \o ReplaceAll(SubSeq(name, Len(pattern) + 1, Len(name)),
                                        pattern, replacement)
         ELSE <<Head(name)>> \o ReplaceAll(Tail(name), pattern, replacement)

\* the name the backend restores a snapshot index under, given the request body
RestoreTarget(name, body) ==
    IF "rename_pattern" \in DOMAIN body /\ "rename_replacement" \in DOMAIN body
    THEN ReplaceAll(name, body.rename_pattern, body.rename_replacement)
    ELSE name

\* the arguments restore_snapshot is called with
RenamePatterns == {Null, Str(SourceIndex), Str(<<"-papers">>)}
RenameReplacements == {Null, Str(<<>>), Str(RestoredName)}
IndicesArgs == {Null, List(<<SourceIndex>>)}
DocSets == {{"d1"}, {"d1", "d2"}}

(***************************************************************************)
(* The snapshot repository and its snapshots.                              *)
(***************************************************************************)
NoRepository == [type |-> "none", settings |-> [location |-> "", compress |-> FALSE]]

\* the body register_snapshot_repository sends
RepositoryBody(repo_path) ==
    [type |-> "fs", settings |-> [location |-> repo_path, compress |-> TRUE]]

\* SNAPSHOT_REPO_PATH: the default and another location
RepoPaths == {"/usr/share/elasticsearch/snapshots", "/mnt/other"}

Terminal == {"SUCCESS", "PARTIAL", "FAILED"}

\* the per-shard counts of a snapshot of the index (two shards)
Shards(state) ==
    CASE state = "SUCCESS"     -> [total |-> 2, failed |-> 0, successful |-> 2]
      [] state = "PARTIAL"     -> [total |-> 2, failed |-> 1, successful |-> 1]
      [] state = "FAILED"      -> [total |-> 2, failed |-> 2, successful |-> 0]
      [] state = "IN_PROGRESS" -> [total |-> 2, failed |-> 0, successful |-> 0]

\* a snapshot in the repository: the index it was taken of and the documents
\* the index held when it was taken
Snap(name, index_name, docs, state) ==
    [name |-> name, index |-> index_name, docs |-> docs, state |-> state,
     shards |-> Shards(state)]

SnapshotNames == {"snap", "s1"}

\* the body create_snapshot builds from `indices`
CreateBody(indices) == IF Truthy(indices) THEN [indices |-> Join(indices.v)] ELSE <<>>

\* CreateResponse never waiting
CreateResponseNoWait(snap, wait_for_completion) == [accepted |-> TRUE]

\* what client.snapshot.create returns: the final snapshot when it waited,
\* the acknowledgement when it did not
CreateResponse(snap, wait_for_completion) ==
    IF wait_for_completion
    THEN [snapshot |-> [snapshot |-> snap.name, state |-> snap.state,
                        indices |-> <<snap.index>>, shards |-> snap.shards]]
    ELSE [accepted |-> TRUE]

\* the backend refuses to create the snapshot
CreateRefused(name) ==
    \/ repository = NoRepository
    \/ \E s \in snapshot : s.name = name
    \/ SourceIndex \notin DOMAIN cluster

Call(op, arg, outcome, response) ==
    [op |-> op, arg |-> arg, outcome |-> outcome, response |-> response]

NoCall == Call("none", <<>>, "none", <<>>)

(***************************************************************************)
(* Initial states.                                                         *)
(***************************************************************************)
\* a file that does not exist
NoFile == [exists |-> FALSE, origin |-> "none", records |-> <<>>]

\* the variables of the other scripts, which a run does not use
\* a file left by an earlier run
EarlierFile == [exists |-> TRUE, origin |-> "earlier", records |-> <<>>]

IdleEmbed == embedding_dim = 0 /\ all_embeddings = <<>>

IdleLoad ==
    /\ index_exists = FALSE /\ index = {} /\ visible = {} /\ written = <<>>
    /\ total_indexed = 0 /\ total_errors = 0 /\ doc_count = 0

IdleBatches == papers = <<>> /\ batch_size = 1 /\ i = 0 /\ log = <<>>

IdleFilter ==
    /\ source = <<>> /\ max_papers = 0 /\ pos = 0 /\ cs_papers = <<>>
    /\ total_processed = 0 /\ failure = "none"

IdleSnap ==
    /\ cluster = <<>> /\ snapshot = {} /\ restore_args = <<>> /\ restore_body = <<>>
    /\ repository = NoRepository /\ call = NoCall /\ ops = 0

\* generate_embeddings.main: cs_papers.json exists or not
InitEmbed ==
    /\ script = "generate_embeddings"
    /\ pc = "load_model"
    /\ input_exists \in BOOLEAN
    /\ papers \in IF input_exists THEN SeqsUpTo(PaperPool, MaxPapers) ELSE {<<>>}
    /\ batch_size \in 1..MaxBatch
    /\ i = 0
    /\ log = <<>>
    /\ output_file \in {NoFile, EarlierFile}
    /\ exit_status = -1
    /\ IdleEmbed /\ IdleLoad /\ IdleFilter /\ IdleSnap

\* ingest_data.main: cs_papers_with_embeddings.json exists or not; the index
\* exists or not
InitLoad ==
    /\ script = "ingest_data"
    /\ pc = "create_index"
    /\ input_exists \in BOOLEAN
    /\ papers \in IF input_exists THEN SeqsUpTo(LoadPool, MaxPapers) ELSE {<<>>}
    /\ batch_size \in 1..MaxBatch
    /\ i = 0
    /\ log = <<>>
    /\ index_exists \in BOOLEAN
    /\ \E prior \in PriorLoads :
          /\ index = IF index_exists THEN LoadedIndex(prior) ELSE {}
          /\ written = IF index_exists THEN prior ELSE <<>>
    /\ visible = index
    /\ total_indexed = 0
    /\ total_errors = 0
    /\ doc_count = 0
    /\ output_file = NoFile
    /\ exit_status = -1
    /\ IdleEmbed /\ IdleFilter /\ IdleSnap

\* download_dataset.main: cs_papers.json exists or not; the arXiv snapshot file
\* is on disk or has to be downloaded
InitDownload ==
    /\ script = "download_dataset"
    /\ pc = "main"
    /\ output_file \in {NoFile, [exists |-> TRUE, origin |-> "earlier", records |-> <<>>]}
    /\ input_exists \in BOOLEAN
    /\ source \in IF output_file.exists THEN {<<>>} ELSE SeqsUpTo(LinePool, MaxLines)
    /\ max_papers \in IF output_file.exists THEN {0} ELSE 0..MaxCap
    /\ pos = 0
    /\ cs_papers = <<>>
    /\ total_processed = 0
    /\ failure = "none"
    /\ exit_status = -1
    /\ IdleBatches /\ IdleEmbed /\ IdleLoad /\ IdleSnap

\* setup_snapshots.main at the menu: the cluster holds the source index, open
\* or closed, and the repository a snapshot of it
InitSnap ==
    /\ script = "setup_snapshots"
    /\ pc = "menu"
    /\ \E open \in BOOLEAN, docs \in DocSets :
          cluster = (SourceIndex :> [open |-> open, docs |-> docs])
    /\ repository \in {NoRepository, RepositoryBody("/usr/share/elasticsearch/snapshots")}
    /\ snapshot = IF repository = NoRepository THEN {}
                  ELSE {Snap("snap", SourceIndex, {"d1"}, "SUCCESS")}
    /\ restore_args \in IF repository = NoRepository
                        THEN {[indices |-> List(<<SourceIndex>>),
                               rename_pattern |-> Str(SourceIndex),
                               rename_replacement |-> Str(RestoredName)]}
                        ELSE [indices : IndicesArgs,
                              rename_pattern : RenamePatterns,
                              rename_replacement : RenameReplacements]
    /\ restore_body = <<>>
    /\ call = NoCall
    /\ ops = 0
    /\ input_exists = FALSE /\ output_file = NoFile /\ exit_status = -1
    /\ IdleBatches /\ IdleEmbed /\ IdleLoad /\ IdleFilter

\* demo_queries.main at its menu: the index exists (main returns otherwise)
InitDemoQueries ==
    /\ script = "demo_queries"
    /\ pc = "menu"
    /\ \E docs \in DocSets : cluster = (SourceIndex :> [open |-> TRUE, docs |-> docs])
    /\ repository \in {NoRepository, RepositoryBody("/usr/share/elasticsearch/snapshots")}
    /\ snapshot = IF repository = NoRepository THEN {}
                  ELSE {Snap("snap", SourceIndex, {"d1"}, "SUCCESS")}
    /\ restore_args = <<>>
    /\ restore_body = <<>>
    /\ call = NoCall
    /\ ops = 0
    /\ input_exists = FALSE /\ output_file = NoFile /\ exit_status = -1
    /\ IdleBatches /\ IdleEmbed /\ IdleLoad /\ IdleFilter

Init == InitEmbed \/ InitLoad \/ InitDownload \/ InitSnap \/ InitDemoQueries

(***************************************************************************)
(* generate_embeddings                                                     *)
(***************************************************************************)
\* one external call: the operation, the loop offset it was made at, the batch
\* it was given, how it ended, the failures it reported and the rows it returned
Event(op, start, batch, outcome, failed, rows) ==
    [op |-> op, start |-> start, batch |-> batch, outcome |-> outcome,
     failed |-> failed, rows |-> rows]

\* main: the output file exists and the answer to "regenerate?" is not 'y'
DeclineRegenerate ==
    /\ script = "generate_embeddings" /\ pc = "load_model"
    /\ input_exists
    /\ output_file.exists
    /\ pc' = "kept"
    /\ exit_status' = 0
    /\ UNCHANGED <<script, papers, batch_size, i, log, embedVars, loadVars,
                   input_exists, output_file, filterVars, snapVars>>

\* (the output file does not exist, or the answer was 'y')
\* model = SentenceTransformer(model_name); embedding_dim = model.get_...()
GetDimension ==
    /\ script = "generate_embeddings" /\ pc = "load_model"
    /\ input_exists
    /\ embedding_dim' = ModelDim
    /\ all_embeddings' = <<>>
    /\ i' = 0
    /\ log' = Append(log, Event("get_dimension", 0, <<>>, "ok", 0, <<>>))
    /\ pc' = "encode"
    /\ UNCHANGED <<script, papers, batch_size>>
    /\ UNCHANGED loadVars
    /\ UNCHANGED <<procVars, filterVars, snapVars>>

\* EncodeBatch calling the service once per text instead of once per batch
EncodeBatchPerText ==
    /\ script = "generate_embeddings" /\ pc = "encode"
    /\ i < Len(Abstracts(papers))
    /\ \E outcome \in EncodeOutcomes :
         LET batch == Slice(Abstracts(papers), i, 1)
         IN  /\ all_embeddings' = all_embeddings \o Encode(batch, outcome)
             /\ log' = Append(log, Event("encode", i, batch, outcome, 0, Encode(batch, outcome)))
    /\ i' = i + 1
    /\ UNCHANGED <<script, pc, papers, batch_size, embedding_dim>>
    /\ UNCHANGED loadVars
    /\ UNCHANGED <<procVars, filterVars, snapVars>>

\* one iteration of the loop: batch = abstracts[i:i + batch_size];
\* batch_embeddings = model.encode(batch); all_embeddings.extend(batch_embeddings)
EncodeBatch ==
    /\ script = "generate_embeddings" /\ pc = "encode"
    /\ i < Len(Abstracts(papers))
    /\ \E outcome \in EncodeOutcomes :
         LET batch == Slice(Abstracts(papers), i, batch_size)
         IN  /\ all_embeddings' = all_embeddings \o Encode(batch, outcome)
             /\ log' = Append(log, Event("encode", i, batch, outcome, 0, Encode(batch, outcome)))
    /\ i' = i + batch_size
    /\ UNCHANGED <<script, pc, papers, batch_size, embedding_dim>>
    /\ UNCHANGED loadVars
    /\ UNCHANGED <<procVars, filterVars, snapVars>>

\* EncodeRaises keeping what was embedded so far: the vectors are attached
\* and the records written before the exception leaves
EncodeRaisesSavesPartial ==
    /\ script = "generate_embeddings" /\ pc = "encode"
    /\ i < Len(Abstracts(papers))
    /\ log' = Append(log, Event("encode", i, Slice(Abstracts(papers), i, batch_size),
                               "raise", 0, <<>>))
    /\ papers' = AttachVectors(papers, all_embeddings)
    /\ output_file' = [exists |-> TRUE, origin |-> "embed", records |-> papers']
    /\ pc' = "raised"
    /\ exit_status' = 1
    /\ UNCHANGED <<script, batch_size, i, embedVars, input_exists, filterVars, snapVars,
                   loadVars>>

\* model.encode raises: the exception leaves generate_embeddings and main
EncodeRaises ==
    /\ script = "generate_embeddings" /\ pc = "encode"
    /\ i < Len(Abstracts(papers))
    /\ log' = Append(log, Event("encode", i, Slice(Abstracts(papers), i, batch_size),
                               "raise", 0, <<>>))
    /\ pc' = "raised"
    /\ exit_status' = 1
    /\ UNCHANGED <<script, papers, batch_size, i>>
    /\ UNCHANGED embedVars
    /\ UNCHANGED <<input_exists, output_file, filterVars, snapVars>>
    /\ UNCHANGED loadVars

\* the loop is over: attach the vectors and return papers
AttachEmbeddings ==
    /\ script = "generate_embeddings" /\ pc = "encode"
    /\ i >= Len(Abstracts(papers))
    /\ papers' = AttachVectors(papers, all_embeddings)
    /\ pc' = "returned"
    /\ UNCHANGED <<script, batch_size, i, log>>
    /\ UNCHANGED embedVars
    /\ UNCHANGED <<procVars, filterVars, snapVars>>
    /\ UNCHANGED loadVars

\* main: save_papers_with_embeddings(papers_with_embeddings, output_file)
SavePapers ==
    /\ script = "generate_embeddings" /\ pc = "returned"
    /\ output_file' = [exists |-> TRUE, origin |-> "embed", records |-> papers]
    /\ pc' = "saved"
    /\ exit_status' = 0
    /\ UNCHANGED <<script, papers, batch_size, i, log, embedVars, loadVars, input_exists,
                   filterVars, snapVars>>

NextEmbed == DeclineRegenerate \/ GetDimension \/ EncodeBatch \/ EncodeRaises
             \/ AttachEmbeddings \/ SavePapers

\* both main()s: if not os.path.exists(input_file): logger.error(...);
\* logger.info("Please run ... first"); return
MissingInput ==
    /\ script \in {"generate_embeddings", "ingest_data"}
    /\ pc \in {"load_model", "create_index"}
    /\ ~input_exists
    /\ pc' = "missing_input"
    /\ exit_status' = 0
    /\ UNCHANGED <<script, papers, batch_size, i, log, input_exists, output_file>>
    /\ UNCHANGED <<embedVars, loadVars, filterVars, snapVars>>

(***************************************************************************)
(* ingest_data.main: create_index, bulk_index_papers, verify_index         *)
(***************************************************************************)
Responses == {"y", "N"}

\* create_index on a cluster without the index, then the head of bulk_index_papers
CreateIndexNew ==
    /\ script = "ingest_data" /\ pc = "create_index"
    /\ input_exists
    /\ ~index_exists
    /\ index_exists' = TRUE
    /\ index' = {}
    /\ visible' = {}
    /\ written' = <<>>
    /\ total_indexed' = 0
    /\ total_errors' = 0
    /\ i' = 0
    /\ pc' = "bulk"
    /\ UNCHANGED <<script, papers, batch_size, log, doc_count>>
    /\ UNCHANGED embedVars
    /\ UNCHANGED <<procVars, filterVars, snapVars>>

\* create_index on a cluster that has the index: delete and recreate on 'y',
\* return otherwise
CreateIndexExisting ==
    /\ script = "ingest_data" /\ pc = "create_index"
    /\ input_exists
    /\ index_exists
    /\ \E response \in Responses :
         IF response = "y"
         THEN index' = {} /\ visible' = {} /\ written' = <<>>
         ELSE UNCHANGED <<index, visible, written>>
    /\ total_indexed' = 0
    /\ total_errors' = 0
    /\ i' = 0
    /\ pc' = "bulk"
    /\ UNCHANGED <<script, papers, batch_size, log, doc_count, index_exists>>
    /\ UNCHANGED embedVars
    /\ UNCHANGED <<procVars, filterVars, snapVars>>

\* OnBulkException counting one error for the whole batch
OnBulkExceptionOne(errors, batch) == errors + 1

\* except BulkIndexError / except Exception: total_errors += len(batch)
OnBulkException(errors, batch) == errors + Len(batch)

\* AfterBulkException leaving the loop (the exception ends the load)
AfterBulkExceptionAbort(start, size, n) == n

\* the loop goes on with the next batch after a handled exception
AfterBulkException(start, size, n) == start + size

\* one iteration whose bulk() call returns (success, failed): the documents at
\* the positions F of the batch are refused by the backend
BulkReturns ==
    /\ script = "ingest_data" /\ pc = "bulk"
    /\ i < Len(papers)
    /\ LET batch == Slice(papers, i, batch_size)
       IN  \E F \in SUBSET (1..Len(batch)) :
             LET ok == Except(batch, F, 1)
                 success == Len(ok)
                 failed == Cardinality(F)
             IN  /\ index' = ApplyActions(index, generate_actions(ok, IndexName))
                 /\ written' = written \o ok
                 /\ total_indexed' = total_indexed + success
                 /\ total_errors' = total_errors + failed
                 /\ log' = Append(log, Event("bulk", i, batch, "stats", failed, <<>>))
    /\ i' = i + batch_size
    /\ UNCHANGED <<script, pc, papers, batch_size, index_exists, visible, doc_count>>
    /\ UNCHANGED embedVars
    /\ UNCHANGED <<procVars, filterVars, snapVars>>

BulkExceptions == {"BulkIndexError", "ConnectionError"}

\* one iteration whose bulk() call raises, after the backend applied the first
\* w actions of the batch (the chunks sent before the failing one)
BulkRaises ==
    /\ script = "ingest_data" /\ pc = "bulk"
    /\ i < Len(papers)
    /\ LET batch == Slice(papers, i, batch_size)
       IN  \E kind \in BulkExceptions, w \in 0..Len(batch) :
             LET ok == SubSeq(batch, 1, w)
             IN  /\ index' = ApplyActions(index, generate_actions(ok, IndexName))
                 /\ written' = written \o ok
                 /\ total_errors' = OnBulkException(total_errors, batch)
                 /\ log' = Append(log, Event("bulk", i, batch, kind, Len(batch), <<>>))
    /\ i' = AfterBulkException(i, batch_size, Len(papers))
    /\ UNCHANGED <<script, pc, papers, batch_size, index_exists, visible,
                   total_indexed, doc_count>>
    /\ UNCHANGED embedVars
    /\ UNCHANGED <<procVars, filterVars, snapVars>>

\* Refresh returning total_indexed without the refresh request
RefreshOmitted ==
    /\ script = "ingest_data" /\ pc = "bulk"
    /\ i >= Len(papers)
    /\ pc' = "verify"
    /\ UNCHANGED <<script, papers, batch_size, i, log, index_exists, index, visible,
                   total_indexed, total_errors, doc_count, written>>
    /\ UNCHANGED embedVars
    /\ UNCHANGED <<procVars, filterVars, snapVars>>

\* the loop is over: client.indices.refresh(index=index_name); return total_indexed
Refresh ==
    /\ script = "ingest_data" /\ pc = "bulk"
    /\ i >= Len(papers)
    /\ \E outcome \in {"ok", "raise"} :
         /\ log' = Append(log, Event("refresh", i, <<>>, outcome, 0, <<>>))
         /\ IF outcome = "ok"
            THEN visible' = index /\ pc' = "verify" /\ exit_status' = exit_status
            ELSE visible' = visible /\ pc' = "raised" /\ exit_status' = 1
    /\ UNCHANGED <<script, papers, batch_size, i, index_exists, index,
                   total_indexed, total_errors, doc_count, written>>
    /\ UNCHANGED embedVars
    /\ UNCHANGED <<input_exists, output_file, filterVars, snapVars>>

\* verify_index: doc_count = stats[...]['docs']['count']; then main returns
VerifyIndex ==
    /\ script = "ingest_data" /\ pc = "verify"
    /\ doc_count' = Cardinality(visible)
    /\ pc' = "done"
    /\ exit_status' = 0
    /\ UNCHANGED <<script, papers, batch_size, i, log, index_exists, index, visible,
                   total_indexed, total_errors, written>>
    /\ UNCHANGED embedVars
    /\ UNCHANGED <<input_exists, output_file, filterVars, snapVars>>

NextLoad == CreateIndexNew \/ CreateIndexExisting \/ BulkReturns \/ BulkRaises
            \/ Refresh \/ VerifyIndex

(***************************************************************************)
(* download_dataset.main: download, filter_cs_papers, sample fallback      *)
(***************************************************************************)
downloadFrame == <<papers, batch_size, i, log, embedVars, loadVars, snapVars>>

\* if os.path.exists(output_file): ...; return
DatasetExists ==
    /\ script = "download_dataset" /\ pc = "main"
    /\ output_file.exists
    /\ pc' = "done"
    /\ exit_status' = 0
    /\ UNCHANGED <<script, input_exists, output_file, filterVars, downloadFrame>>

\* if not os.path.exists(arxiv_file): download_kaggle_dataset(data_dir), which
\* delivers the file or raises
DownloadDataset ==
    /\ script = "download_dataset" /\ pc = "main"
    /\ ~output_file.exists
    /\ ~input_exists
    /\ \E outcome \in {"ok", "raise"} :
         IF outcome = "ok"
         THEN input_exists' = TRUE /\ UNCHANGED <<pc, failure>>
         ELSE failure' = "DownloadError" /\ pc' = "fallback" /\ UNCHANGED input_exists
    /\ UNCHANGED <<script, output_file, exit_status, source, max_papers, pos, cs_papers,
                   total_processed, downloadFrame>>

\* the head of filter_cs_papers: cs_papers = []; total_processed = 0; open
StartFilter ==
    /\ script = "download_dataset" /\ pc = "main"
    /\ ~output_file.exists
    /\ input_exists
    /\ cs_papers' = <<>>
    /\ total_processed' = 0
    /\ pos' = 0
    /\ pc' = "filter"
    /\ UNCHANGED <<script, procVars, source, max_papers, failure, downloadFrame>>

\* one iteration of `for line in f`
FilterLine ==
    /\ script = "download_dataset" /\ pc = "filter"
    /\ pos < Len(source)
    /\ pos' = pos + 1
    /\ LET line == source[pos + 1]
           exc == LineRaises(line)
           parsed == line.kind = "json"
           kept == parsed /\ exc = "none" /\ AnyCs(Categories(line.value.v))
           new == IF kept THEN Append(cs_papers, CsPaper(line.value.v)) ELSE cs_papers
       IN  /\ total_processed' = IF parsed THEN total_processed + 1 ELSE total_processed
           /\ cs_papers' = new
           /\ failure' = exc
           /\ pc' = IF exc # "none" THEN "fallback"
                    ELSE IF kept /\ CapReached(max_papers, Len(new)) THEN "save"
                    ELSE "filter"
    /\ UNCHANGED <<script, procVars, source, max_papers, downloadFrame>>

\* after the loop: json.dump(cs_papers, f); return len(cs_papers); main returns
SaveFiltered ==
    /\ script = "download_dataset"
    /\ pc = "save" \/ (pc = "filter" /\ pos = Len(source))
    /\ output_file' = [exists |-> TRUE, origin |-> "filter", records |-> cs_papers]
    /\ pc' = "done"
    /\ exit_status' = 0
    /\ UNCHANGED <<script, input_exists, filterVars, downloadFrame>>

\* CreateSample letting the exception end the run instead
CreateSampleReraise ==
    /\ script = "download_dataset" /\ pc = "fallback"
    /\ pc' = "raised"
    /\ exit_status' = 1
    /\ UNCHANGED <<script, input_exists, output_file, filterVars, downloadFrame>>

\* except Exception: logger.warning(...);
\* create_sample_dataset(output_file, num_samples=min(1000, max_documents))
CreateSample ==
    /\ script = "download_dataset" /\ pc = "fallback"
    /\ output_file' = [exists |-> TRUE, origin |-> "sample",
                       records |-> SampleDataset(Min(1000, max_papers))]
    /\ pc' = "done"
    /\ exit_status' = 0
    /\ UNCHANGED <<script, input_exists, filterVars, downloadFrame>>

NextDownload == DatasetExists \/ DownloadDataset \/ StartFilter \/ FilterLine
                \/ SaveFiltered \/ CreateSample

(***************************************************************************)
(* setup_snapshots: repository, snapshots, the demo; demo_queries' demo    *)
(***************************************************************************)
snapFrame == <<script, papers, batch_size, i, log, embedVars, loadVars, input_exists,
               output_file, filterVars, restore_args, restore_body>>

Acknowledged == [acknowledged |-> TRUE]

\* the exception of a backend call leaves the function and main
Raises(op, arg) ==
    /\ call' = Call(op, arg, "raised", <<>>)
    /\ pc' = "raised"
    /\ exit_status' = 1

\* the function returns to the menu loop
Returns(op, arg, response) ==
    /\ call' = Call(op, arg, "returned", response)
    /\ UNCHANGED <<pc, exit_status>>

\* the backend's PUT of a repository: it registers the body, replacing the
\* settings of a repository of that name
PutRepository(current, body) == body

\* register_snapshot_repository(client, repo_name, repo_path)
RegisterRepository ==
    /\ script = "setup_snapshots" /\ pc = "menu" /\ ops < MaxOps
    /\ \E repo_path \in RepoPaths, outcome \in {"ok", "error"} :
         IF outcome = "ok"
         THEN /\ repository' = PutRepository(repository, RepositoryBody(repo_path))
              /\ Returns("register", repo_path, Acknowledged)
         ELSE /\ UNCHANGED repository
              /\ Raises("register", repo_path)
    /\ ops' = ops + 1
    /\ UNCHANGED <<cluster, snapshot, snapFrame>>

\* create_snapshot(client, repo_name, name, indices=[index_name],
\* wait_for_completion): without waiting the snapshot is left IN_PROGRESS
CreateSnapshot ==
    /\ script = "setup_snapshots" /\ pc = "menu" /\ ops < MaxOps
    /\ \E name \in SnapshotNames, wait_for_completion \in BOOLEAN,
          outcome \in Terminal \cup {"error"} :
         LET body == CreateBody(List(<<SourceIndex>>))
             arg == [name |-> name, wait_for_completion |-> wait_for_completion]
         IN  IF CreateRefused(name) \/ outcome = "error"
             THEN /\ UNCHANGED snapshot
                  /\ Raises("create", arg)
             ELSE LET snap == Snap(name, body.indices, cluster[body.indices].docs,
                                   IF wait_for_completion THEN outcome ELSE "IN_PROGRESS")
                  IN  /\ snapshot' = snapshot \cup {snap}
                      /\ Returns("create", arg, CreateResponse(snap, wait_for_completion))
    /\ ops' = ops + 1
    /\ UNCHANGED <<cluster, repository, snapFrame>>

\* the backend finishes a snapshot that was started without waiting
SnapshotCompletes ==
    /\ script = "setup_snapshots" /\ pc = "menu"
    /\ \E s \in snapshot, final \in Terminal :
         /\ s.state = "IN_PROGRESS"
         /\ snapshot' = (snapshot \ {s}) \cup {Snap(s.name, s.index, s.docs, final)}
    /\ UNCHANGED <<pc, exit_status, cluster, repository, call, ops, snapFrame>>

\* delete_snapshot(client, repo_name, snapshot_name): the backend removes the
\* snapshot, aborting it first if it is in progress
DeleteSnapshot ==
    /\ script = "setup_snapshots" /\ pc = "menu" /\ ops < MaxOps
    /\ \E name \in SnapshotNames, outcome \in {"ok", "error"} :
         IF outcome = "ok" /\ \E s \in snapshot : s.name = name
         THEN /\ snapshot' = {s \in snapshot : s.name # name}
              /\ Returns("delete", name, Acknowledged)
         ELSE /\ UNCHANGED snapshot
              /\ Raises("delete", name)
    /\ ops' = ops + 1
    /\ UNCHANGED <<cluster, repository, snapFrame>>

\* the index is deleted (client.indices.delete); the backend does not delete
\* an index a snapshot in progress is being taken of
DeleteIndex ==
    /\ script = "setup_snapshots" /\ pc = "menu" /\ ops < MaxOps
    /\ SourceIndex \in DOMAIN cluster
    /\ \A s \in snapshot : s.state # "IN_PROGRESS"
    /\ cluster' = [name \in DOMAIN cluster \ {SourceIndex} |-> cluster[name]]
    /\ ops' = ops + 1
    /\ UNCHANGED <<pc, exit_status, snapshot, repository, call, snapFrame>>

\* demo_snapshot_restore, step 1: register the repository; an exception whose
\* text holds 'repository_already_exists' is logged, any other is re-raised
DemoRegister ==
    /\ script = "setup_snapshots" /\ pc = "menu" /\ ops < MaxOps
    /\ \E repo_path \in RepoPaths, outcome \in {"ok", "repository_already_exists", "error"} :
         CASE outcome = "ok" ->
                /\ repository' = PutRepository(repository, RepositoryBody(repo_path))
                /\ call' = Call("demo_register", repo_path, "returned", Acknowledged)
                /\ pc' = "demo_create"
                /\ UNCHANGED exit_status
           [] outcome = "repository_already_exists" ->
                /\ repository # NoRepository
                /\ call' = Call("demo_register", repo_path, "logged", <<>>)
                /\ pc' = "demo_create"
                /\ UNCHANGED <<repository, exit_status>>
           [] outcome = "error" ->
                /\ UNCHANGED repository
                /\ Raises("demo_register", repo_path)
    /\ ops' = ops + 1
    /\ UNCHANGED <<cluster, snapshot, snapFrame>>

\* the snapshot step of either demo: a snapshot of the index is created under
\* a name made from the time of day, waiting for completion; an exception is
\* logged
DemoSnapshot(op) ==
    \E outcome \in Terminal \cup {"error"} :
        LET name == "s1"
            arg == [name |-> name, wait_for_completion |-> TRUE]
        IN  IF CreateRefused(name) \/ outcome = "error"
            THEN /\ UNCHANGED snapshot
                 /\ call' = Call(op, arg, "logged", <<>>)
            ELSE LET snap == Snap(name, SourceIndex, cluster[SourceIndex].docs, outcome)
                 IN  /\ snapshot' = snapshot \cup {snap}
                     /\ call' = Call(op, arg, "returned", CreateResponse(snap, TRUE))

\* demo_snapshot_restore, steps 2 and 3: create_snapshot, list_snapshots
DemoCreate ==
    /\ script = "setup_snapshots" /\ pc = "demo_create"
    /\ DemoSnapshot("demo_create")
    /\ pc' = "menu"
    /\ UNCHANGED <<exit_status, cluster, repository, ops, snapFrame>>

\* demo_queries.demo_snapshot_restore, 3.1: the repository is looked up and
\* registered only if the lookup fails
DemoQueriesRepository ==
    /\ script = "demo_queries" /\ pc = "menu"
    /\ \E repo_path \in RepoPaths, outcome \in {"ok", "error"} :
         IF repository # NoRepository
         THEN /\ call' = Call("dq_repository", repo_path, "already_registered", repository)
              /\ pc' = "dq_create"
              /\ UNCHANGED repository
         ELSE IF outcome = "ok"
              THEN /\ repository' = PutRepository(repository, RepositoryBody(repo_path))
                   /\ call' = Call("dq_repository", repo_path, "returned", Acknowledged)
                   /\ pc' = "dq_create"
              ELSE /\ call' = Call("dq_repository", repo_path, "logged", <<>>)
                   /\ pc' = "dq_returned"
                   /\ UNCHANGED repository
    /\ UNCHANGED <<exit_status, cluster, snapshot, ops, snapFrame>>

\* demo_queries.demo_snapshot_restore, 3.2 to 3.4
DemoQueriesCreate ==
    /\ script = "demo_queries" /\ pc = "dq_create"
    /\ DemoSnapshot("dq_create")
    /\ pc' = "dq_returned"
    /\ UNCHANGED <<exit_status, cluster, repository, ops, snapFrame>>

(***************************************************************************)
(* setup_snapshots.restore_snapshot                                        *)
(***************************************************************************)
\* restore_snapshot(client, repo_name, name, indices, rename_pattern,
\* rename_replacement): the body is built and client.snapshot.restore is
\* called; the backend refuses to restore over an open index
RestoreSnapshot ==
    /\ script = "setup_snapshots" /\ pc = "menu"
    /\ \E snap \in snapshot, outcome \in {"ok", "error"} :
         LET body == RestoreBody(restore_args.indices, restore_args.rename_pattern,
                                 restore_args.rename_replacement)
             target == RestoreTarget(snap.index, body)
             refused == \/ target \in DOMAIN cluster /\ cluster[target].open
                        \/ snap.state # "SUCCESS"
         IN  /\ restore_body' = body
             /\ IF outcome = "ok" /\ ~refused
                THEN /\ cluster' = [name \in DOMAIN cluster \cup {target} |->
                                       IF name = target
                                       THEN [open |-> TRUE, docs |-> snap.docs]
                                       ELSE cluster[name]]
                     /\ pc' = "restored"
                     /\ UNCHANGED exit_status
                ELSE /\ pc' = "raised"
                     /\ exit_status' = 1
                     /\ UNCHANGED cluster
    /\ UNCHANGED <<script, papers, batch_size, i, log, embedVars, loadVars, input_exists,
                   output_file, filterVars, snapshot, restore_args, repository, call, ops>>

NextSnap == RegisterRepository \/ CreateSnapshot \/ SnapshotCompletes \/ DeleteSnapshot
            \/ DeleteIndex \/ DemoRegister \/ DemoCreate \/ RestoreSnapshot

NextDemoQueries == DemoQueriesRepository \/ DemoQueriesCreate

Next == NextEmbed \/ NextLoad \/ MissingInput \/ NextDownload \/ NextSnap
        \/ NextDemoQueries

Spec == Init /\ [][Next]_vars

(***************************************************************************)
(* Vocabulary of the properties.                                           *)
(***************************************************************************)
\* ceil(n / b)
NumBatches(n, b) == (n + b - 1) \div b

\* the calls of one kind made so far, in order
Calls(op) == SelectSeq(log, LAMBDA e : e.op = op)

\* the batches of the calls, one after the other
RECURSIVE ConcatBatches(_)
ConcatBatches(calls) ==
    IF calls = <<>> THEN <<>> ELSE Head(calls).batch \o ConcatBatches(Tail(calls))

\* the failures the calls were counted with
RECURSIVE SumFailed(_)
SumFailed(calls) ==
    IF calls = <<>> THEN 0 ELSE Head(calls).failed + SumFailed(Tail(calls))

\* bulk_index_papers has left its loop
LoadLoopDone == script = "ingest_data" /\ pc \in {"verify", "done", "raised"}

\* bulk_index_papers has returned
LoadReturned == script = "ingest_data" /\ pc \in {"verify", "done"}

\* generate_embeddings has returned
EmbedReturned == script = "generate_embeddings" /\ pc = "returned"

\* the identifiers of the papers the backend has applied a write for
IdsWritten == {Get(written[k], "id", "") : k \in 1..Len(written)}

\* the paper of the latest applied write for identifier id
LatestWrite(id) ==
    written[CHOOSE k \in 1..Len(written) :
                /\ Get(written[k], "id", "") = id
                /\ \A m \in (k + 1)..Len(written) : Get(written[m], "id", "") # id]

(***************************************************************************)
(* C1. Load accounting: after each batch the running sum total_indexed +   *)
(* total_errors equals the number of records in the batches submitted so   *)
(* far, whatever each bulk call reported or raised, and when the loop is   *)
(* over it equals the number of records given to bulk_index_papers.        *)
(***************************************************************************)
C1_LoadAccounting ==
    script = "ingest_data" =>
        /\ total_indexed + total_errors = Len(ConcatBatches(Calls("bulk")))
        /\ total_indexed + total_errors = Min(i, Len(papers))
        /\ (LoadLoopDone => total_indexed + total_errors = Len(papers))

\* a finished run with a batch of two of which one document was refused (50%)
\* and a batch whose bulk call raised (100%)
C1_Witness ==
    /\ script = "ingest_data" /\ pc = "done"
    /\ total_indexed > 0 /\ total_errors > 0
    /\ \E e \in {log[k] : k \in 1..Len(log)} :
          e.op = "bulk" /\ e.outcome = "stats" /\ Len(e.batch) = 2 /\ e.failed = 1
    /\ \E e \in {log[k] : k \in 1..Len(log)} :
          e.op = "bulk" /\ e.outcome \in BulkExceptions

(***************************************************************************)
(* C2. Partial failure never aborts the load: the failures of every bulk   *)
(* call (reported per document, or the whole batch when the call raised)   *)
(* are in total_errors, and the k-th bulk call is made for the k-th batch: *)
(* once the loop is over every batch was submitted exactly once, in order, *)
(* whatever happened to the batches before it.                             *)
(***************************************************************************)
C2_PartialFailureContinues ==
    script = "ingest_data" =>
        LET calls == Calls("bulk")
        IN  /\ total_errors = SumFailed(calls)
            /\ \A k \in 1..Len(calls) :
                  /\ calls[k].start = (k - 1) * batch_size
                  /\ calls[k].batch = Slice(papers, (k - 1) * batch_size, batch_size)
            /\ (pc = "bulk" => Len(calls) = NumBatches(Min(i, Len(papers)), batch_size))
            /\ (LoadLoopDone => Len(calls) = NumBatches(Len(papers), batch_size))

\* a finished run whose first bulk call raised and whose second reported a
\* refused document, with a third batch submitted after them
C2_Witness ==
    /\ script = "ingest_data" /\ pc = "done"
    /\ Len(Calls("bulk")) = 3
    /\ Calls("bulk")[1].outcome = "BulkIndexError"
    /\ Calls("bulk")[2].outcome = "stats" /\ Calls("bulk")[2].failed = 1
    /\ total_errors >= 2

(***************************************************************************)
(* C3. Connectivity loss is fatal to the load: no bulk call is made after  *)
(* a bulk call that failed because the backend was unreachable.            *)
(***************************************************************************)
C3_ConnectivityLossAborts ==
    script = "ingest_data" =>
        \A j, k \in 1..Len(log) :
            (j < k /\ log[j].op = "bulk" /\ log[j].outcome = "ConnectionError")
                => log[k].op # "bulk"

(***************************************************************************)
(* C4. Post-load document count: when the ingest driver has run            *)
(* verify_index, the document count it read equals the indexed count of    *)
(* bulk_index_papers.                                                      *)
(***************************************************************************)
C4_DocCountEqualsIndexed ==
    (script = "ingest_data" /\ pc = "done") => doc_count = total_indexed

(***************************************************************************)
(* C5. Load idempotence: every document of the index is keyed by its       *)
(* paper identifier, the index holds exactly one document per identifier   *)
(* written, and that document has the content of the latest write applied  *)
(* for the identifier.                                                     *)
(***************************************************************************)
C5_LoadIdempotence ==
    script = "ingest_data" =>
        /\ \A d \in index : d._id = d._source.paper_id
        /\ Cardinality(index) = Cardinality(IdsWritten)
        /\ \A id \in IdsWritten :
              \E d \in index :
                 /\ d._source.paper_id = id
                 /\ d._source.abstract = Get(LatestWrite(id), "abstract", "")
                 /\ d._source.title = Get(LatestWrite(id), "title", "")
                 /\ d._source.abstract_vector = Get(LatestWrite(id), "abstract_vector", <<>>)

\* a finished run on an index kept from an earlier load, in which the same
\* record was written twice and an identifier was written with two contents
C5_Witness ==
    /\ script = "ingest_data" /\ pc = "done"
    /\ \E j, k \in 1..Len(written) : j < k /\ written[j] = written[k]
    /\ \E j, k \in 1..Len(written) :
          /\ j < k
          /\ written[j].id = written[k].id
          /\ written[j].abstract # written[k].abstract
    /\ \E d \in index : d._id = "p2"
    /\ Cardinality(index) = 2

(***************************************************************************)
(* C6. Refresh ordering: a run of bulk_index_papers issues at most one     *)
(* refresh request; it is the last call of the run, made after the bulk    *)
(* calls of all batches; and the function does not return without it.      *)
(***************************************************************************)
C6_RefreshOrdering ==
    script = "ingest_data" =>
        LET R == {k \in 1..Len(log) : log[k].op = "refresh"}
        IN  /\ Cardinality(R) <= 1
            /\ \A k \in R :
                  /\ k = Len(log)
                  /\ Len(Calls("bulk")) = NumBatches(Len(papers), batch_size)
                  /\ \A j \in 1..(k - 1) : log[j].op = "bulk"
            /\ (pc = "bulk" => R = {})
            /\ (LoadReturned => Cardinality(R) = 1)

\* a returned run whose last bulk call raised, followed by the refresh
C6_Witness ==
    /\ LoadReturned
    /\ Len(log) = 3
    /\ log[2].op = "bulk" /\ log[2].outcome = "ConnectionError"
    /\ log[3].op = "refresh"

(***************************************************************************)
(* C7. Batch partition: the batching loops of generate_embeddings and      *)
(* bulk_index_papers cut n records into batches of batch_size, the last    *)
(* one possibly smaller; the batches made so far, one after the other, are *)
(* a prefix of the input; once the loop is over there are ceil(n/b) of     *)
(* them, every position of the input lies in exactly one, and together     *)
(* they are the input.                                                     *)
(***************************************************************************)
C7_BatchPartition ==
    LET input == IF script = "ingest_data" THEN papers ELSE Abstracts(papers)
        calls == IF script = "ingest_data" THEN Calls("bulk") ELSE Calls("encode")
        n == Len(input)
        b == batch_size
    IN  /\ \A k \in 1..Len(calls) :
              \/ Len(calls[k].batch) = b
              \/ k = NumBatches(n, b) /\ Len(calls[k].batch) \in 1..b
        /\ ConcatBatches(calls) = SubSeq(input, 1, Min(Len(calls) * b, n))
        /\ (LoadLoopDone \/ EmbedReturned =>
              /\ Len(calls) = NumBatches(n, b)
              /\ ConcatBatches(calls) = input
              /\ \A p \in 1..n :
                    Cardinality({k \in 1..Len(calls) :
                        calls[k].start < p /\ p <= calls[k].start + Len(calls[k].batch)}) = 1)

\* generate_embeddings returned after cutting three abstracts into batches of two
C7_Witness ==
    /\ EmbedReturned
    /\ Len(papers) = 3 /\ batch_size = 2
    /\ Len(Calls("encode")) = 2
    /\ Len(Calls("encode")[2].batch) = 1

(***************************************************************************)
(* C8. Embedding count mismatch is fatal: generate_embeddings does not     *)
(* return records when the service answered some batch with a number of    *)
(* rows different from the number of texts of the batch.                   *)
(***************************************************************************)
C8_CountMismatchFatal ==
    script = "generate_embeddings" =>
        ((\E k \in 1..Len(log) :
              log[k].op = "encode" /\ log[k].outcome # "raise"
              /\ Len(log[k].rows) # Len(log[k].batch))
         => pc # "returned")

(***************************************************************************)
(* C9. Embedding shape invariant: every record generate_embeddings         *)
(* returns, and every document body generate_actions builds from it, has   *)
(* an abstract_vector of length embedding_dim.                             *)
(***************************************************************************)
C9_EmbeddingShape ==
    EmbedReturned =>
        \A k \in 1..Len(papers) :
            /\ "abstract_vector" \in DOMAIN papers[k]
            /\ Len(papers[k].abstract_vector) = embedding_dim
            /\ Len(generate_actions(papers, IndexName)[k]._source.abstract_vector)
                 = embedding_dim

(***************************************************************************)
(* C10. Dimension change is fatal: generate_embeddings does not return     *)
(* when the service answered some batch with a row whose length differs    *)
(* from the dimension queried at the start of the run.                     *)
(***************************************************************************)
C10_DimensionChangeFatal ==
    script = "generate_embeddings" =>
        ((\E k \in 1..Len(log) :
              log[k].op = "encode"
              /\ \E r \in 1..Len(log[k].rows) : Len(tolist(log[k].rows[r])) # embedding_dim)
         => pc # "returned")

(***************************************************************************)
(* C11. One external call per batch: the k-th call of the embedding        *)
(* service is made with exactly the abstracts of the k-th batch and the    *)
(* k-th bulk call with exactly the papers of the k-th batch; neither loop  *)
(* makes more than ceil(n/b) calls, and a loop that is over has made       *)
(* exactly ceil(n/b).                                                      *)
(***************************************************************************)
C11_OneCallPerBatch ==
    LET n == Len(papers)
        b == batch_size
        kth(seq, k) == SubSeq(seq, (k - 1) * b + 1, Min(k * b, n))
    IN  /\ script = "generate_embeddings" =>
              /\ Len(Calls("encode")) <= NumBatches(n, b)
              /\ \A k \in 1..Len(Calls("encode")) :
                    Calls("encode")[k].batch = kth(Abstracts(papers), k)
              /\ (EmbedReturned => Len(Calls("encode")) = NumBatches(n, b))
        /\ script = "ingest_data" =>
              /\ Len(Calls("bulk")) <= NumBatches(n, b)
              /\ \A k \in 1..Len(Calls("bulk")) : Calls("bulk")[k].batch = kth(papers, k)
              /\ (LoadLoopDone => Len(Calls("bulk")) = NumBatches(n, b))

\* bulk_index_papers returned after two bulk calls for three papers in batches
\* of two
C11_Witness ==
    /\ LoadReturned
    /\ Len(papers) = 3 /\ batch_size = 2
    /\ Len(Calls("bulk")) = 2
    /\ Len(Calls("bulk")[1].batch) = 2 /\ Len(Calls("bulk")[2].batch) = 1


(***************************************************************************)
(* Vocabulary of the filter properties.                                    *)
(***************************************************************************)
FilterSaved == script = "download_dataset" /\ output_file.origin = "filter"

\* the line is a record object with at least one tag of prefix 'cs.'
HasCsTag(line) ==
    /\ line.kind = "json"
    /\ line.value.t = "object"
    /\ \E k \in 1..Len(Categories(line.value.v)) :
          StartsWith(Categories(line.value.v)[k].v, <<"c", "s", ".">>)

Matches(lines) == SelectSeq(lines, HasCsTag)

MatchCount(p) == Len(Matches(SubSeq(source, 1, p)))

Malformed(line) == line.kind # "json" \/ line.value.t # "object"

\* C12: when filter_cs_papers has saved its output and no cap cut the run
\* short, the whole source was read and the output holds, in source order,
\* exactly the records with at least one tag of prefix 'cs.'; each kept
\* record's category list is the matching tags of the original in original
\* order, hence non-empty.
C12_FilterCompleteness ==
    (FilterSaved /\ (max_papers = 0 \/ Len(output_file.records) < max_papers)) =>
        LET out == output_file.records
            kept == Matches(source)
        IN  /\ pos = Len(source)
            /\ Len(out) = Len(kept)
            /\ \A j \in 1..Len(out) :
                  LET raw == Categories(kept[j].value.v)
                  IN  /\ out[j].id = Get(kept[j].value.v, "id", Str(<<>>))
                      /\ out[j].categories.v = SelectSeq(raw, IsCs)
                      /\ out[j].categories.v # <<>>
                      /\ \A c \in 1..Len(out[j].categories.v) :
                            \E r \in 1..Len(raw) : raw[r] = out[j].categories.v[c]

C12_Witness ==
    /\ FilterSaved
    /\ max_papers = 0
    /\ source = <<LineA, LineB, LineC>>
    /\ Len(output_file.records) = 2
    /\ output_file.records[1].categories.v = <<Str(<<"c", "s", ".", "A">>)>>
    /\ Len(output_file.records[2].categories.v) = 2

\* C13: for every cap k, k = 0 included, the saved output of filter_cs_papers
\* has exactly min(k, matching_count) records, the first ones in source order.
C13_FilterCapSize ==
    FilterSaved =>
        LET k == Min(max_papers, Len(Matches(source)))
        IN  /\ Len(output_file.records) = k
            /\ \A j \in 1..Len(output_file.records) :
                  j <= Len(Matches(source))
                  /\ output_file.records[j].id
                        = Get(Matches(source)[j].value.v, "id", Str(<<>>))

\* C14: with a cap k >= 1, once k records are kept the number of lines
\* consumed is, and stays, the position of the k-th matching line: no further
\* line is read.
C14_ShortCircuit ==
    (script = "download_dataset" /\ max_papers >= 1 /\ Len(cs_papers) >= max_papers) =>
        /\ Len(cs_papers) = max_papers
        /\ pos \in 1..Len(source)
        /\ MatchCount(pos) = max_papers
        /\ MatchCount(pos - 1) = max_papers - 1
        /\ total_processed <= pos

C14_Witness ==
    /\ FilterSaved
    /\ max_papers = 1
    /\ source = <<LineB, LineA, LineC>>
    /\ pos = 2
    /\ Len(output_file.records) = 1

\* C15: a malformed line (invalid JSON, invalid byte encoding, parseable but
\* not a record object) is skipped and the filter run continues: it raises
\* nothing, and a finished run saved the filter's output for the other lines.
C15_MalformedAbsorbed ==
    (script = "download_dataset" /\ \E k \in 1..pos : Malformed(source[k])) =>
        /\ failure = "none"
        /\ pc = "done" =>
              /\ output_file.origin = "filter"
              /\ max_papers = 0 => Len(output_file.records) = Len(Matches(source))

\* C16: every record kept by filter_cs_papers has its six fields non-null and
\* no newline in title, abstract or authors.
C16_FieldNormalization ==
    script = "download_dataset" =>
        \A j \in 1..Len(cs_papers) :
            /\ \A f \in {"id", "title", "abstract", "categories", "authors", "update_date"} :
                  cs_papers[j][f].t # "null"
            /\ \A f \in {"title", "abstract", "authors"} :
                  cs_papers[j][f].t = "str" =>
                      \A c \in 1..Len(cs_papers[j][f].v) : cs_papers[j][f].v[c] # "\n"

C18_MissingArtifactFails ==
    (script \in {"generate_embeddings", "ingest_data"} /\ pc = "missing_input") =>
        /\ exit_status # 0
        /\ ~output_file.exists
        /\ log = <<>>
        /\ written = <<>>

\* C19: a finished load run with 0 < error_count < total submitted has the
\* normal exit status; one whose error_count equals the total submitted has a
\* failing exit status.
C19_ExitStatusOnTotalFailure ==
    (script = "ingest_data" /\ pc = "done") =>
        /\ (0 < total_errors /\ total_errors < Len(papers)) => exit_status = 0
        /\ (Len(papers) > 0 /\ total_errors = Len(papers)) => exit_status # 0

\* C20: a successful restore_snapshot call given a rename pattern and/or a
\* rename replacement sends both in the request, materializes the restored
\* index under a name other than the source's, and leaves the source index as
\* it was.
C20_SafeRestore ==
    [][(/\ script = "setup_snapshots" /\ pc = "menu" /\ pc' = "restored"
        /\ \/ restore_args.rename_pattern.t # "null"
           \/ restore_args.rename_replacement.t # "null")
       => /\ "rename_pattern" \in DOMAIN restore_body'
          /\ "rename_replacement" \in DOMAIN restore_body'
          /\ SourceIndex \in DOMAIN cluster => cluster'[SourceIndex] = cluster[SourceIndex]
          /\ \E name \in DOMAIN cluster' \ DOMAIN cluster :
                \E snap \in snapshot : cluster'[name].docs = snap.docs]_vars

\* C25: the step that returns from generate_embeddings keeps the n records, in
\* order and with their fields unchanged, and attaches to every record a
\* vector, the one computed from that record's own abstract.
C25_VectorAlignment ==
    [][(script = "generate_embeddings" /\ pc = "encode" /\ pc' = "returned")
       => /\ Len(papers') = Len(papers)
          /\ \A k \in 1..Len(papers) :
                /\ \A f \in DOMAIN papers[k] : papers'[k][f] = papers[k][f]
                /\ "abstract_vector" \in DOMAIN papers'[k]
                /\ \A c \in 1..Len(papers'[k].abstract_vector) :
                      papers'[k].abstract_vector[c] = Get(papers[k], "abstract", "")]_vars

\* C26: once an embedding call has raised, no record has a vector and the
\* output file is as the run found it; the output file is written only after
\* every batch was embedded, and then holds all n records.
C26_AllOrNothing ==
    script = "generate_embeddings" =>
        /\ (\E k \in 1..Len(log) : log[k].op = "encode" /\ log[k].outcome = "raise") =>
              /\ \A k \in 1..Len(papers) : "abstract_vector" \notin DOMAIN papers[k]
              /\ output_file \in {NoFile, EarlierFile}
              /\ exit_status # 0
        /\ output_file.origin = "embed" =>
              /\ \A k \in 1..Len(log) : log[k].outcome # "raise"
              /\ Len(Calls("encode")) = NumBatches(Len(papers), batch_size)
              /\ i >= Len(papers)
              /\ output_file.records = papers
              /\ Len(output_file.records) = Len(papers)

C26_Witness ==
    /\ script = "generate_embeddings"
    /\ pc = "raised"
    /\ Len(papers) = 3
    /\ Len(Calls("encode")) = 2
    /\ Calls("encode")[1].outcome = "ok"
    /\ Len(all_embeddings) = 2
    /\ output_file = EarlierFile

(***************************************************************************)
(* Vocabulary of the snapshot properties: the steps of the operations.     *)
(***************************************************************************)
\* a step of register_snapshot_repository or of a demo's registration
RegisterStep ==
    \/ /\ script = "setup_snapshots" /\ pc = "menu" /\ ops' = ops + 1
       /\ cluster' = cluster
       /\ call'.op \in {"register", "demo_register"}
    \/ /\ script = "demo_queries" /\ pc = "menu"
       /\ call'.op = "dq_repository"

\* a step of create_snapshot / of delete_snapshot
CreateStep ==
    /\ script = "setup_snapshots" /\ pc = "menu" /\ ops' = ops + 1
    /\ cluster' = cluster
    /\ call'.op = "create"

DeleteStep ==
    /\ script = "setup_snapshots" /\ pc = "menu" /\ ops' = ops + 1
    /\ cluster' = cluster
    /\ call'.op = "delete"

\* a step of restore_snapshot that returned
RestoredStep == script = "setup_snapshots" /\ pc = "menu" /\ pc' = "restored"

\* C21: a snapshot that appears as SUCCESS holds the documents of its index,
\* and after the index was deleted a restore_snapshot call given a rename
\* pattern and replacement that returns has materialized, under the renamed
\* name, an index with exactly the documents of the snapshot.
C21_SnapshotRoundTrip ==
    [][/\ \A s \in snapshot' \ snapshot :
             (s.state = "SUCCESS" /\ s.index \in DOMAIN cluster)
                 => s.docs = cluster[s.index].docs
       /\ (/\ RestoredStep
           /\ SourceIndex \notin DOMAIN cluster
           /\ restore_args.rename_pattern.t = "str"
           /\ restore_args.rename_replacement.t = "str")
          => \E snap \in snapshot :
                LET target == ReplaceAll(snap.index, restore_args.rename_pattern.v,
                                         restore_args.rename_replacement.v)
                IN  /\ snap.state = "SUCCESS"
                    /\ target # snap.index
                    /\ target \in DOMAIN cluster'
                    /\ cluster'[target].docs = snap.docs
                    /\ Cardinality(cluster'[target].docs) = Cardinality(snap.docs)]_vars

\* C22: a registration with the settings already registered changes nothing;
\* a registration of the registered name with another location raises to the
\* caller and leaves the registered settings as they were.
C22_ReRegistration ==
    [][(RegisterStep /\ repository # NoRepository)
       => IF repository = RepositoryBody(call'.arg)
          THEN repository' = repository
          ELSE call'.outcome = "raised" /\ repository' = repository]_vars

\* C23: delete_snapshot on a snapshot IN_PROGRESS raises and leaves the
\* snapshot in place, still IN_PROGRESS; a delete_snapshot that returns has
\* removed a snapshot that was in a terminal state.
C23_DeleteActiveRejected ==
    [][DeleteStep
       => \A s \in snapshot :
             s.name = call'.arg =>
                /\ s.state = "IN_PROGRESS" => (call'.outcome = "raised" /\ s \in snapshot')
                /\ call'.outcome = "returned" =>
                      (s.state \in Terminal /\ \A t \in snapshot' : t.name # s.name)]_vars

====
